---- MODULE Spec2Model ----
(***************************************************************************)
(* A model of src/syntheticSeismogram.py: the numerical pipeline           *)
(* getImpedance / getReflectivity / getTimeDepth / getRicker / getOrmsby / *)
(* getKlauder / syntheticSeismogram.                                       *)
(*                                                                         *)
(* Numbers.  The program computes in IEEE doubles; the model computes in   *)
(* exact rationals <<n, d>> (d > 0, lowest terms), so rounding is not      *)
(* modelled.  The one non-number the claims need, numpy's nan (0/0), is    *)
(* the pair <<0, 0>>; it is absorbing under + and *, as in numpy.          *)
(* The caller's arrays depth, density and velocity hold integers.          *)
(*                                                                         *)
(* Arrays.  numpy arrays are objects; a name is a reference.  Every        *)
(* library call that the source makes on a caller's array is modelled by   *)
(* an operator returning [src |-> the argument object after the call,      *)
(* new |-> the object returned], so that "copy" versus "in place" is       *)
(* explicit in the model.                                                  *)
(***************************************************************************)
EXTENDS Integers, Sequences, FiniteSets, TLC

VARIABLES
    harness,    \* which stage's arguments the caller has prepared
    d,          \* caller's array: depth to the top of each layer
    rho,        \* caller's array: density of each layer
    v,          \* caller's array: velocity of each layer
    dmax,       \* scalar argument dmax
    usingT,     \* scalar argument usingT
    wavtyp,     \* 'RICKER' | 'ORMSBY' | 'KLAUDER'
    wavf,       \* caller's array: wavelet frequencies
    wavA,       \* scalar argument wavA
    dt,         \* scalar argument dt (a rational)
    twavIn,     \* caller's array: time axis handed to a wavelet generator
    shape,      \* the values of the transcendental factors at each sample
    given,      \* the caller's arrays as they were handed over (history)
    ncalls,     \* number of calls made so far
    last,       \* the last call: [op, status, out]
    prev        \* the call before it

vars == <<harness, d, rho, v, dmax, usingT, wavtyp, wavf, wavA, dt, twavIn,
          shape, given, ncalls, last, prev>>

-----------------------------------------------------------------------------
(* Bounds of the model *)

MaxTDLayers == 3    \* timeDepth harness: up to this many layers
MaxDepth == 2       \* timeDepth harness: depths are drawn from 0..MaxDepth
MaxThickness == 2   \* synthesize harness: layers are 1..MaxThickness thick
MaxFreqs == 4       \* a frequency array holds up to this many frequencies
MaxAxisLen == 3     \* a caller's wavelet time axis holds up to this many samples
NumShapes == 2      \* number of sample-value profiles tried
MaxSamples == 12    \* a sample-value profile covers this many samples
MaxCalls == 2       \* the caller makes at most this many calls

-----------------------------------------------------------------------------
(* Exact rational arithmetic standing for float arithmetic *)

RECURSIVE GCD(_, _)
GCD(a, b) == IF b = 0 THEN a ELSE GCD(b, a % b)

Abs(x) == IF x < 0 THEN -x ELSE x

NaN == <<0, 0>>

IsNaN(x) == x[2] = 0

Frac(n, m) ==
    IF m = 0 THEN NaN
    ELSE LET g == GCD(Abs(n), Abs(m))
             s == IF m < 0 THEN -1 ELSE 1
         IN  <<s * (n \div g), s * (m \div g)>>

Rat(n) == <<n, 1>>

RAdd(x, y) == IF IsNaN(x) \/ IsNaN(y) THEN NaN
              ELSE Frac(x[1] * y[2] + y[1] * x[2], x[2] * y[2])

RSub(x, y) == IF IsNaN(x) \/ IsNaN(y) THEN NaN
              ELSE Frac(x[1] * y[2] - y[1] * x[2], x[2] * y[2])

RMul(x, y) == IF IsNaN(x) \/ IsNaN(y) THEN NaN
              ELSE Frac(x[1] * y[1], x[2] * y[2])

\* x / y; 0/0 is nan.  (A nonzero number over zero is +-inf in numpy; the
\* model's inputs never produce that case, see the Init sets.)
RDiv(x, y) == IF IsNaN(x) \/ IsNaN(y) THEN NaN
              ELSE Frac(x[1] * y[2], x[2] * y[1])

\* Comparisons; any comparison with nan is False, as in IEEE arithmetic.
RLe(x, y) == ~IsNaN(x) /\ ~IsNaN(y) /\ x[1] * y[2] <= y[1] * x[2]
RLt(x, y) == ~IsNaN(x) /\ ~IsNaN(y) /\ x[1] * y[2] < y[1] * x[2]

RAbs(x) == <<Abs(x[1]), x[2]>>

\* ceil(x) of a rational, as an integer
RCeil(x) == -((-x[1]) \div x[2])

-----------------------------------------------------------------------------
(* numpy calls the source makes *)

\* np.array(a, dtype=float): a new array with a's values; a is left as is.
np_array(a) == [src |-> a, new |-> a]

\* np.sort(a): "Return a sorted copy of an array"; a is left as is.
ndarray_sort_inplace(a) ==
    LET s == SortSeq(a, LAMBDA x, y : x < y) IN [src |-> s, new |-> s]

np_sort(a) == [src |-> a, new |-> SortSeq(a, LAMBDA x, y : x < y)]

\* np.append(a, x): a new array
np_append(a, x) == Append(a, x)

\* np.diff(a): a[i+1] - a[i]
np_diff(a) == [i \in 1..(Len(a) - 1) |-> a[i + 1] - a[i]]

\* np.cumsum over rationals
RECURSIVE np_cumsum(_)
np_cumsum(a) ==
    IF Len(a) = 0 THEN <<>>
    ELSE LET front == np_cumsum(SubSeq(a, 1, Len(a) - 1))
         IN  Append(front,
                    IF Len(front) = 0 THEN a[Len(a)]
                    ELSE RAdd(front[Len(front)], a[Len(a)]))

\* Whether two 1-d shapes broadcast together, and the broadcast length
Broadcasts(n, m) == n = m \/ n = 1 \/ m = 1
BLen(n, m) == IF n = 1 THEN m ELSE n
BIdx(n, i) == IF n = 1 THEN 1 ELSE i

-----------------------------------------------------------------------------
(* getImpedance, getReflectivity, getTimeDepth *)

\* getImpedance(rholog, vlog): np.array copies of both, then rholog*vlog.
\* (The callers modelled hand over parallel arrays of equal length.)
getImpedance(rholog, vlog) ==
    LET r == np_array(rholog)
        w == np_array(vlog)
    IN  [rho |-> r.src, v |-> w.src,
         Z   |-> [i \in 1..Len(r.new) |-> r.new[i] * w.new[i]]]

\* R = dZ/sZ
RawCoefficients(Z) ==
    [i \in 1..(Len(Z) - 1) |-> Frac(Z[i + 1] - Z[i], Z[i] + Z[i + 1])]

\* One pass of the loop body for Python index i (0-based), on the one array
\* object that both names rseries and R refer to:
\*     rseries[i+1:] = rseries[i+1:]*(1.-R[i]**2)
TransmissionStep(buf, i) ==
    LET fac == RSub(Rat(1), RMul(buf[i + 1], buf[i + 1]))
    IN  [k \in 1..Len(buf) |-> IF k >= i + 2 THEN RMul(buf[k], fac) ELSE buf[k]]

\* for i in range(nlayer-1), from Python index i upward
RECURSIVE TransmissionLoop(_, _, _)
TransmissionLoop(buf, i, nlayer) ==
    IF i >= nlayer - 1 THEN buf
    ELSE TransmissionLoop(TransmissionStep(buf, i), i + 1, nlayer)

\* getReflectivity(d, rho, v, usingT).  `rseries = R` binds a second name to
\* the same array, so the loop's slice assignment is seen through both, and
\* `return rseries, R` returns that one array twice.
getReflectivity(dd, rr, vv, useT) ==
    LET imp    == getImpedance(rr, vv)
        R      == RawCoefficients(imp.Z)
        nlayer == Len(vv)
        obj    == IF useT THEN TransmissionLoop(R, 0, nlayer) ELSE R
    IN  [d |-> dd, rho |-> imp.rho, v |-> imp.v,
         rseries |-> obj, R |-> obj]

\* getTimeDepth(d, v, dmax)
getTimeDepth(dd, vv, dm) ==
    LET s     == np_sort(dd)
        d2    == np_append(s.new, dm)
        df    == np_diff(d2)
        ok    == Broadcasts(Len(df), Len(vv))
        n     == BLen(Len(df), Len(vv))
        twt   == [i \in 1..n |->
                    Frac(2 * df[BIdx(Len(df), i)], vv[BIdx(Len(vv), i)])]
        twttop == np_cumsum(<<Rat(0)>> \o twt)
    IN  [d |-> s.src, v |-> vv,
         status |-> IF ok THEN "ok" ELSE "ValueError",
         dOut |-> IF ok THEN d2 ELSE <<>>,
         t    |-> IF ok THEN twttop ELSE <<>>]

-----------------------------------------------------------------------------
(* Wavelet definitions *)

KlauderT == 5       \* getKlauder's default sweep length T=5.0

\* The value of a wavelet expression at sample i where the expression is
\* defined but transcendental (exp, sin, sinc): the model cannot compute it
\* and takes it from `shape`, which Init draws from ShapeSet.
Transcendental(sh, i) == sh[i]

\* getRicker(f, t): no check on f (the assert is commented out).
\*   pift = pi*f*t ; wav = (1 - 2*pift**2)*np.exp(-pift**2)
\* f*t broadcasts; where f*t = 0 the value is exactly 1.
getRicker(f, t, sh) ==
    LET ok == Broadcasts(Len(f), Len(t))
        n  == BLen(Len(f), Len(t))
    IN  [f |-> f, t |-> t,
         status |-> IF ok THEN "ok" ELSE "ValueError",
         wav |-> IF ~ok THEN <<>>
                 ELSE [i \in 1..n |->
                        LET ft == RMul(Rat(f[BIdx(Len(f), i)]), t[BIdx(Len(t), i)])
                        IN  IF ft = Rat(0) THEN Rat(1) ELSE Transcendental(sh, i)]]

\* getOrmsby(f, t): assert len(f) == 4; f = np.sort(f) (a sorted copy).
\* With four distinct frequencies den1 and den2 are nonzero and every sample
\* is a finite transcendental value.
getOrmsby(f, t, sh) ==
    IF Len(f) # 4
    THEN [f |-> f, t |-> t, status |-> "AssertionError", wav |-> <<>>]
    ELSE LET s == np_sort(f)
         IN  [f |-> s.src, t |-> t, status |-> "ok",
              wav |-> [i \in 1..Len(t) |-> Transcendental(sh, i)]]

\* getKlauder(f, t, T=5.0): assert len(f) == 2;
\*   k = np.diff(f)/T ; f0 = np.sum(f)/2.0
\*   wav = np.real(np.sin(pi*k*t*(T-t))/(pi*k*t)*np.exp(2*pi*1j*f0*t))
\* Where pi*k*t = 0 the numerator sin(0) is 0 too and 0/0 is nan, which the
\* multiplication and np.real keep.
getKlauder(f, t, sh) ==
    IF Len(f) # 2
    THEN [f |-> f, t |-> t, status |-> "AssertionError", wav |-> <<>>]
    ELSE LET k == Frac(np_diff(f)[1], KlauderT)
         IN  [f |-> f, t |-> t, status |-> "ok",
              wav |-> [i \in 1..Len(t) |->
                        LET kt == RMul(k, t[i])
                        IN  IF kt = Rat(0) THEN RDiv(Rat(0), kt)
                            ELSE Transcendental(sh, i)]]

\* {'RICKER':getRicker, 'ORMSBY':getOrmsby, 'KLAUDER':getKlauder}[wavtyp](wavf,twav)
getWavelet(typ, f, t, sh) ==
    CASE typ = "RICKER"  -> getRicker(f, t, sh)
      [] typ = "ORMSBY"  -> getOrmsby(f, t, sh)
      [] typ = "KLAUDER" -> getKlauder(f, t, sh)

-----------------------------------------------------------------------------
(* syntheticSeismogram *)

\* np.arange(start, stop, step) for step > 0: start + k*step, k < ceil((stop-start)/step)
np_arange(start, stop, step) ==
    LET n == RCeil(RDiv(RSub(stop, start), step))
    IN  [i \in 1..(IF n > 0 THEN n ELSE 0) |-> RAdd(start, RMul(Rat(i - 1), step))]

\* min and max of a nonempty array of rationals
RMin(a) == a[CHOOSE i \in 1..Len(a) : \A j \in 1..Len(a) : RLe(a[i], a[j])]
RMax(a) == a[CHOOSE i \in 1..Len(a) : \A j \in 1..Len(a) : RLe(a[j], a[i])]

\* np.min of a nonempty array of integers
IMin(a) == CHOOSE x \in {a[i] : i \in 1..Len(a)} : \A j \in 1..Len(a) : x <= a[j]

\* np.abs(t - x).argmin(): the first index of the minimum (1-based here)
ArgMinAbs(t, x) ==
    LET dist(i) == RAbs(RSub(t[i], x))
    IN  CHOOSE i \in 1..Len(t) :
            /\ \A j \in 1..Len(t) : RLe(dist(i), dist(j))
            /\ \A j \in 1..(i - 1) : RLt(dist(i), dist(j))

\* for i in range(len(tref)): index = ...argmin(); rseriesconv[index] = rseries[i]
RECURSIVE PlaceLoop(_, _, _, _, _)
PlaceLoop(conv, t, tref, rseries, i) ==
    IF i > Len(tref) THEN conv
    ELSE PlaceLoop([conv EXCEPT ![ArgMinAbs(t, tref[i])] = rseries[i]],
                   t, tref, rseries, i + 1)

\* np.convolve(a, w), mode 'full': out[k] = sum_m a[m]*w[k-m]
RECURSIVE ConvSum(_, _, _, _)
ConvSum(a, w, k, m) ==
    IF m > Len(a) THEN Rat(0)
    ELSE LET rest == ConvSum(a, w, k, m + 1)
             j    == k - m + 1
         IN  IF j >= 1 /\ j <= Len(w) THEN RAdd(RMul(a[m], w[j]), rest) ELSE rest

np_convolve(a, w) == [k \in 1..(Len(a) + Len(w) - 1) |-> ConvSum(a, w, k, 1)]

\* tseis = np.min(twav)+dt*np.arange(len(seis)): the time of sample k (1-based),
\* t0 being np.min(twav)
ConvTime(t0, step, k) == RAdd(t0, RMul(step, Rat(k - 1)))

\* index = np.logical_and(tseis >= 0, tseis <= np.max(t)), tmax being np.max(t)
InWindow(ts, tmax) == RLe(Rat(0), ts) /\ RLe(ts, tmax)

\* a[index] for a boolean mask: the kept positions, in order
RECURSIVE Masked(_, _, _)
Masked(a, keep, i) ==
    IF i > Len(a) THEN <<>>
    ELSE (IF keep[i] THEN <<a[i]>> ELSE <<>>) \o Masked(a, keep, i + 1)

\* Which value of usingT the call to getReflectivity gets.  The source converts
\* its argument (usingT = np.array(usingT, dtype=bool)) and then calls
\* getReflectivity(d,rho,v) without it, so the parameter's default, True.
ReflectivityFlag(useT) == TRUE

syntheticSeismogram(dd, rr, vv, f, A, useT, typ, step, dm, sh) ==
    LET vc   == np_array(vv)
        rc   == np_array(rr)
        dc   == np_array(dd)
        td   == getTimeDepth(dc.new, vc.new, dm)
        refl == getReflectivity(dc.new, rc.new, vc.new, ReflectivityFlag(useT))
        tref == SubSeq(td.t, 2, Len(td.t) - 1)
        t    == np_arange(RMin(td.t), RMax(td.t), step)
        half == Frac(2, IMin(f))
        twav == np_arange(RSub(Rat(0), half), half, step)
        gen  == getWavelet(typ, f, twav, sh)
        wav  == [i \in 1..Len(gen.wav) |-> RMul(A, gen.wav[i])]
        caller == [d |-> dc.src, rho |-> rc.src, v |-> vc.src, f |-> gen.f]
        failed(st) == [caller |-> caller, status |-> st, tseis |-> <<>>,
                       seis |-> <<>>, twav |-> <<>>, wav |-> <<>>, tref |-> <<>>,
                       rseries |-> <<>>, R |-> <<>>, t |-> <<>>,
                       rseriesconv |-> <<>>, seisFull |-> <<>>, tseisFull |-> <<>>]
    IN  IF td.status # "ok" THEN failed(td.status)
        ELSE IF gen.status # "ok" THEN failed(gen.status)
        ELSE IF Len(t) = 0 THEN failed("ValueError")   \* argmin of an empty array
        ELSE
        LET conv  == PlaceLoop([i \in 1..Len(t) |-> Rat(0)], t, tref, refl.rseries, 1)
            seis  == np_convolve(wav, conv)
            t0    == RMin(twav)
            tmax  == RMax(t)
            tseis == [k \in 1..Len(seis) |-> ConvTime(t0, step, k)]
            index == [k \in 1..Len(seis) |-> InWindow(tseis[k], tmax)]
        IN  [caller |-> caller, status |-> "ok",
             tseis |-> Masked(tseis, index, 1), seis |-> Masked(seis, index, 1),
             twav |-> twav, wav |-> wav, tref |-> tref, rseries |-> refl.rseries,
             R |-> refl.R, t |-> t, rseriesconv |-> conv,
             seisFull |-> seis, tseisFull |-> tseis]

-----------------------------------------------------------------------------
(* The inputs a caller hands over *)

Densities  == {1, 2}
Velocities == {1, 2}

\* Layer counts of the reflectivity harness.  Four layers give the three
\* interfaces the transmission-loss loop needs to compound twice; with five
\* the exact denominators (squared at every pass) exceed TLC's 32-bit
\* integers.
LayerCounts == 1..4

\* Sample-value profiles: profile a gives sample i the value ((a*i) % 5) - 2
ShapeSet ==
    { [i \in 1..MaxSamples |-> Rat(((a * i) % 5) - 2)] : a \in 1..NumShapes }

\* Frequency arrays: runs lo, lo+1, ... of each length, ascending and descending
FreqArrays ==
    UNION { { [i \in 1..n |-> lo + (i - 1)], [i \in 1..n |-> lo + (n - i)] } :
            n \in 1..MaxFreqs, lo \in 1..2 }

\* Time axes with unit step, starting at -1, -1/2, 0 or 1/2
TimeAxes ==
    { [i \in 1..n |-> RAdd(Frac(k, 2), Rat(i - 1))] : n \in 1..MaxAxisLen, k \in -2..1 }

\* Wavelet settings of the synthesize harness: <<wavtyp, wavf, wavA, dt>>.
\* With dt = 2 and min(wavf) = 2 the wavelet axis is [-1] and has no sample
\* at t = 0; KLAUDER with one frequency has the wrong count.
SynthSettings ==
    { <<"RICKER",  <<1>>,          Rat(1), Rat(1)>>,
      <<"RICKER",  <<2>>,          Rat(2), Rat(2)>>,
      <<"RICKER",  <<1>>,          Rat(1), Rat(2)>>,
      <<"KLAUDER", <<1, 2>>,       Rat(1), Rat(1)>>,
      <<"KLAUDER", <<3, 2>>,       Rat(1), Rat(2)>>,
      <<"KLAUDER", <<1>>,          Rat(1), Rat(1)>>,
      <<"ORMSBY",  <<4, 1, 3, 2>>, Rat(2), Rat(1)>> }

NoCall == [op |-> "none", status |-> "none"]

Given == [d |-> d, rho |-> rho, v |-> v, wavf |-> wavf, twavIn |-> twavIn]

Start ==
    /\ given = Given
    /\ ncalls = 0
    /\ last = NoCall
    /\ prev = NoCall

InitRefl ==
    /\ harness = "refl"
    /\ \E n \in LayerCounts :
         /\ d = [i \in 1..n |-> i - 1]
         /\ rho \in [1..n -> Densities]
         /\ v \in [1..n -> Velocities]
    /\ usingT \in BOOLEAN
    /\ dmax = MaxDepth + 1
    /\ wavtyp = "RICKER" /\ wavf = <<1>> /\ wavA = Rat(1) /\ dt = Rat(1)
    /\ twavIn = <<>> /\ shape = <<>>
    /\ Start

InitTD ==
    /\ harness = "td"
    /\ \E n \in 1..MaxTDLayers :
         /\ d \in [1..n -> 0..MaxDepth]
         /\ v \in [1..n -> Velocities]
         /\ rho = [i \in 1..n |-> 1]
    /\ dmax \in {1, MaxDepth + 1}
    /\ usingT = TRUE
    /\ wavtyp = "RICKER" /\ wavf = <<1>> /\ wavA = Rat(1) /\ dt = Rat(1)
    /\ twavIn = <<>> /\ shape = <<>>
    /\ Start

InitWav ==
    /\ harness = "wav"
    /\ d = <<>> /\ rho = <<>> /\ v = <<>> /\ dmax = 0 /\ usingT = TRUE
    /\ wavtyp \in {"RICKER", "ORMSBY", "KLAUDER"}
    /\ wavf \in FreqArrays
    /\ twavIn \in TimeAxes
    /\ shape \in ShapeSet
    /\ wavA = Rat(1) /\ dt = Rat(1)
    /\ Start

InitSynth ==
    /\ harness = "synth"
    /\ \E h1, h2 \in 1..MaxThickness : d = <<0, h1, h1 + h2>>
    /\ v \in [1..3 -> Velocities]
    /\ rho \in { [i \in 1..3 |-> 1 + ((i + a) % 2)] : a \in 0..1 }
    /\ dmax \in {0, 2 * MaxThickness + 1}
    /\ usingT \in BOOLEAN
    /\ \E w \in SynthSettings :
         wavtyp = w[1] /\ wavf = w[2] /\ wavA = w[3] /\ dt = w[4]
    /\ twavIn = <<>>
    /\ shape \in {s \in ShapeSet : s[1] = Rat(-1)}
    /\ Start

Init == InitRefl \/ InitTD \/ InitWav \/ InitSynth

-----------------------------------------------------------------------------
(* The calls.  Each is one action: the stage runs to completion, the caller's
   arrays become what the call left in them, and the result is recorded.  The
   result r is bound once, by \E over the singleton of the call's value. *)

Called(op, ret) ==
    /\ ncalls < MaxCalls
    /\ ncalls' = ncalls + 1
    /\ prev' = last
    /\ last' = [op |-> op, status |-> ret.status, ret |-> ret]
    /\ UNCHANGED <<harness, dmax, usingT, wavtyp, wavA, dt, shape, given>>

\* impedance(density[], velocity[])
CallImpedance ==
    /\ harness = "refl"
    /\ \E r \in {getImpedance(rho, v)} :
           /\ rho' = r.rho /\ v' = r.v
           /\ Called("impedance", [status |-> "ok", Z |-> r.Z])
    /\ UNCHANGED <<d, wavf, twavIn>>

\* reflectivity(depth[], density[], velocity[], useTransmissionLoss)
CallReflectivity ==
    /\ harness = "refl"
    /\ \E r \in {getReflectivity(d, rho, v, usingT)} :
           /\ d' = r.d /\ rho' = r.rho /\ v' = r.v
           /\ Called("reflectivity",
                     [status |-> "ok", rseries |-> r.rseries, R |-> r.R])
    /\ UNCHANGED <<wavf, twavIn>>

\* timeDepth(depth[], velocity[], dmax)
CallTimeDepth ==
    /\ harness = "td"
    /\ \E r \in {getTimeDepth(d, v, dmax)} :
           /\ d' = r.d /\ v' = r.v
           /\ Called("timeDepth", [status |-> r.status, d |-> r.dOut, t |-> r.t])
    /\ UNCHANGED <<rho, wavf, twavIn>>

\* wavelet(kind, frequencies[], t[])
CallWavelet ==
    /\ harness = "wav"
    /\ \E r \in {getWavelet(wavtyp, wavf, twavIn, shape)} :
           /\ wavf' = r.f /\ twavIn' = r.t
           /\ Called("wavelet", [status |-> r.status, wav |-> r.wav])
    /\ UNCHANGED <<d, rho, v>>

\* synthesize(depth[], density[], velocity[], wavF[], wavA, useTransmissionLoss,
\*            wavKind, dt, dmax)
CallSynthesize ==
    /\ harness = "synth"
    /\ \E r \in {syntheticSeismogram(d, rho, v, wavf, wavA, usingT, wavtyp, dt,
                                    dmax, shape)} :
           /\ d' = r.caller.d /\ rho' = r.caller.rho /\ v' = r.caller.v
           /\ wavf' = r.caller.f
           /\ Called("synthesize", r)
    /\ UNCHANGED twavIn

Next ==
    \/ CallImpedance
    \/ CallReflectivity
    \/ CallTimeDepth
    \/ CallWavelet
    \/ CallSynthesize

Spec == Init /\ [][Next]_vars

NextRefl == CallImpedance \/ CallReflectivity
SpecRefl == InitRefl /\ [][NextRefl]_vars

NextTD == CallTimeDepth
SpecTD == InitTD /\ [][NextTD]_vars

\* timeDepth on the inputs whose dmax exceeds every layer top
InitTDDeep == InitTD /\ \A i \in 1..Len(d) : dmax > d[i]
SpecTDDeep == InitTDDeep /\ [][NextTD]_vars

\* timeDepth on the inputs whose dmax is less than some layer top
InitTDShallow == InitTD /\ \E i \in 1..Len(d) : dmax < d[i]
SpecTDShallow == InitTDShallow /\ [][NextTD]_vars

NextWav == CallWavelet
SpecWav == InitWav /\ [][NextWav]_vars

NextSynth == CallSynthesize
SpecSynth == InitSynth /\ [][NextSynth]_vars

\* synthesize on the inputs whose dmax exceeds the deepest layer top
InitSynthDeep == InitSynth /\ dmax > d[Len(d)]
SpecSynthDeep == InitSynthDeep /\ [][NextSynth]_vars

-----------------------------------------------------------------------------
(* What the claims speak of, stated from the caller's side *)

NLayers == Len(given.v)

Returned(op) == last.op = op /\ last.status = "ok"

\* Z[i] = density[i] * velocity[i] of the model as handed over
ModelZ(i) == given.rho[i] * given.v[i]

\* raw[i] = (Z[i+1] - Z[i]) / (Z[i+1] + Z[i])
ModelRaw(i) == Frac(ModelZ(i + 1) - ModelZ(i), ModelZ(i + 1) + ModelZ(i))

\* product over all shallower interfaces j < i of (1 - raw[j]^2)
RECURSIVE ShallowerLoss(_)
ShallowerLoss(i) ==
    IF i <= 1 THEN Rat(1)
    ELSE RMul(ShallowerLoss(i - 1),
              RSub(Rat(1), RMul(ModelRaw(i - 1), ModelRaw(i - 1))))

ModelEffective(i) == RMul(ModelRaw(i), ShallowerLoss(i))

-----------------------------------------------------------------------------
\* C1: for every model of N >= 2 layers, reflectivity(..., useTransmissionLoss
\* = true) returns as its second result the unattenuated raw coefficients
\* raw[i] = (Z[i+1] - Z[i]) / (Z[i+1] + Z[i]), i in 0..N-2.
C1_RawUnattenuated ==
    (Returned("reflectivity") /\ usingT /\ NLayers >= 2) =>
        /\ Len(last.ret.R) = NLayers - 1
        /\ \A i \in 1..(NLayers - 1) : last.ret.R[i] = ModelRaw(i)

\* C2: with transmission loss enabled, the effective reflectivity of interface
\* i is raw[i] times the product over j < i of (1 - raw[j]^2); the first
\* interface is left unscaled.
C2_EffectiveIsRawTimesLoss ==
    (Returned("reflectivity") /\ usingT /\ NLayers >= 2) =>
        /\ Len(last.ret.rseries) = NLayers - 1
        /\ \A i \in 1..(NLayers - 1) : last.ret.rseries[i] = ModelEffective(i)

\* C3: synthesize computes its reflectivity with the caller's flag: the series
\* it returns and places on the grid is the raw coefficients when the flag is
\* false and the transmission-loss-attenuated series when it is true.
C3_SynthesizeHonoursFlag ==
    Returned("synthesize") =>
        LET want == getReflectivity(given.d, given.rho, given.v, usingT).rseries
        IN  /\ last.ret.rseries = want
            /\ ~usingT => \A i \in 1..(NLayers - 1) :
                              last.ret.rseries[i] = ModelRaw(i)
            /\ \A k \in 1..Len(last.ret.rseriesconv) :
                  \/ last.ret.rseriesconv[k] = Rat(0)
                  \/ \E i \in 1..Len(want) : last.ret.rseriesconv[k] = want[i]

\* The orders in which the layers as handed over are sorted by depth
SortingOrders ==
    { p \in [1..NLayers -> 1..NLayers] :
        /\ \A i, j \in 1..NLayers : i # j => p[i] # p[j]
        /\ \A i \in 1..(NLayers - 1) : given.d[p[i]] <= given.d[p[i + 1]] }

\* C4: in whatever order the layers are given, the two-way time added for each
\* layer is 2 * (its thickness after sorting the depths ascending, down to the
\* next boundary or to dmax for the last) / that same layer's own velocity.
C4_VelocityStaysWithLayer ==
    Returned("timeDepth") =>
        \E p \in SortingOrders :
            \A k \in 1..NLayers :
                LET bottom == IF k < NLayers THEN given.d[p[k + 1]] ELSE dmax
                IN  RSub(last.ret.t[k + 1], last.ret.t[k])
                      = Frac(2 * (bottom - given.d[p[k]]), given.v[p[k]])

MaxGivenDepth == CHOOSE x \in {given.d[i] : i \in 1..NLayers} :
                    \A i \in 1..NLayers : given.d[i] <= x

\* C5: whenever timeDepth returns a result, depth and time have length N+1,
\* time starts at 0 and both are non-decreasing; an input with
\* dmax <= max(depth) is rejected with InvalidDepthRange.
C5_MonotoneOrRejected ==
    last.op = "timeDepth" =>
        /\ last.status = "ok" =>
              /\ Len(last.ret.d) = NLayers + 1
              /\ Len(last.ret.t) = NLayers + 1
              /\ last.ret.t[1] = Rat(0)
              /\ \A k \in 1..NLayers :
                    /\ RLe(last.ret.t[k], last.ret.t[k + 1])
                    /\ last.ret.d[k] <= last.ret.d[k + 1]
        /\ dmax <= MaxGivenDepth => last.status = "InvalidDepthRange"

WrongCount ==
    \/ wavtyp = "RICKER"  /\ Len(given.wavf) > 1
    \/ wavtyp = "ORMSBY"  /\ Len(given.wavf) # 4
    \/ wavtyp = "KLAUDER" /\ Len(given.wavf) # 2

\* C6: every wavelet generator rejects a frequency argument of the wrong count
\* and returns no amplitudes: Ricker when more than one frequency is given,
\* Ormsby when not exactly four, Klauder when not exactly two.  (Any raised
\* exception is counted here as the rejection.)
C6_WrongCountRejected ==
    (last.op = "wavelet" /\ WrongCount) =>
        /\ last.status # "ok"
        /\ last.ret.wav = <<>>

\* C7: for every pair of distinct frequencies and every time axis containing
\* t = 0, the Klauder wavelet returns a defined finite amplitude at t = 0.
C7_KlauderFiniteAtZero ==
    (Returned("wavelet") /\ wavtyp = "KLAUDER"
        /\ given.wavf[1] # given.wavf[2]) =>
        \A i \in 1..Len(given.twavIn) :
            given.twavIn[i] = Rat(0) => ~IsNaN(last.ret.wav[i])

\* C8: every stage leaves the caller's input sequences (depth, density,
\* velocity, frequencies, time axis) unchanged, and calling the same stage
\* twice in a row with the same inputs returns identical outputs.
C8_InputsUntouchedAndRepeatable ==
    /\ Given = given
    /\ (ncalls >= 2 /\ last.op = prev.op) => last.ret = prev.ret

\* C8's case: timeDepth called twice on depths given out of order (the depth
\* sort has run twice on the caller's array)
C8_Witness ==
    /\ ncalls = 2 /\ last.op = "timeDepth" /\ prev.op = "timeDepth"
    /\ last.status = "ok"
    /\ Len(given.d) >= 2 /\ given.d[1] > given.d[2]

\* The lowest-index grid point nearest to interface i's two-way time
NearestGridPoint(i) ==
    LET t    == last.ret.t
        x    == last.ret.tref[i]
        away(k) == RAbs(RSub(t[k], x))
        best == { k \in 1..Len(t) : \A j \in 1..Len(t) : RLe(away(k), away(j)) }
    IN  CHOOSE k \in best : \A j \in best : k <= j

\* C9: in synthesize, for every model, each interior interface's reflectivity
\* value is present on the grid at the lowest-index grid point nearest to that
\* interface's two-way time, and every other grid point is zero; no interface's
\* value is lost or overwritten by another's.
C9_EveryInterfaceOnGrid ==
    Returned("synthesize") =>
        /\ \A i \in 1..Len(last.ret.tref) :
              last.ret.rseriesconv[NearestGridPoint(i)] = last.ret.rseries[i]
        /\ \A k \in 1..Len(last.ret.t) :
              (\A i \in 1..Len(last.ret.tref) : NearestGridPoint(i) # k)
                  => last.ret.rseriesconv[k] = Rat(0)

\* The sum of wav[m] * rseriesconv[j] over the pairs (m, j) whose times
\* wavTime[m] + j*dt (j counted from 0) equal tau, from wavelet sample m upward
RECURSIVE ContributionsAt(_, _)
ContributionsAt(tau, m) ==
    IF m > Len(last.ret.wav) THEN Rat(0)
    ELSE LET lands == { j \in 1..Len(last.ret.t) :
                          RAdd(last.ret.twav[m], RMul(Rat(j - 1), dt)) = tau }
             rest  == ContributionsAt(tau, m + 1)
         IN  IF lands = {} THEN rest
             ELSE RAdd(RMul(last.ret.wav[m],
                            last.ret.rseriesconv[CHOOSE j \in lands : TRUE]), rest)

\* The samples of the full convolution whose assigned time is in [0, max(grid)]
WindowSamples ==
    { k \in 1..Len(last.ret.seisFull) :
        /\ RLe(Rat(0), last.ret.tseisFull[k])
        /\ RLe(last.ret.tseisFull[k], RMax(last.ret.t)) }

\* The full convolution has length len(wavelet)+len(grid)-1, its k-th sample
\* has time min(wavTime) + k*dt, a value r at grid index j contributes
\* r*wav[m] at output time wavTime[m] + j*dt, and the returned seismogram is
\* exactly the samples with time in [0, max(grid time)], time and amplitude of
\* equal length.
ConvolutionAligned ==
    Returned("synthesize") =>
        LET r == last.ret
            n == Len(r.seisFull)
        IN  /\ n = Len(r.wav) + Len(r.t) - 1
            /\ Len(r.tseisFull) = n
            /\ \A k \in 1..n :
                  /\ r.tseisFull[k] = RAdd(RMin(r.twav), RMul(Rat(k - 1), dt))
                  /\ r.seisFull[k] = ContributionsAt(r.tseisFull[k], 1)
            /\ Len(r.tseis) = Cardinality(WindowSamples)
            /\ Len(r.seis) = Len(r.tseis)
            /\ \A q \in 1..Len(r.tseis) :
                  LET k == CHOOSE x \in WindowSamples :
                              Cardinality({y \in WindowSamples : y < x}) = q - 1
                  IN  r.tseis[q] = r.tseisFull[k] /\ r.seis[q] = r.seisFull[k]

\* The wavelet's zero-time sample lands on the interface's grid time: the
\* product of wavelet sample m, at wavTime[m] = 0, with grid point j is
\* assigned the time of grid point j.
ZeroSampleOnGridTime ==
    Returned("synthesize") =>
        \A m \in 1..Len(last.ret.twav) : \A j \in 1..Len(last.ret.t) :
            last.ret.twav[m] = Rat(0) =>
                last.ret.tseisFull[m + j - 1] = last.ret.t[j]

\* C10: in synthesize, the full convolution has length
\* len(wavelet)+len(grid)-1 and its k-th sample is assigned time
\* min(wavTime) + k*dt, so a reflectivity value r placed at grid index j
\* contributes r*wav[m] at output time wavTime[m] + j*dt (the wavelet's
\* zero-time sample lands on the interface's grid time); the returned
\* seismogram is exactly the samples whose assigned time lies in
\* [0, max(grid time)] inclusive, with time and amplitude of equal length.
C10_ConvolutionOnGridTime == ConvolutionAligned /\ ZeroSampleOnGridTime

\* What of C10 holds of the code whatever dmax is
C10_AlignedForEveryInput == ConvolutionAligned

\* and what holds of it once dmax exceeds the deepest layer top (the inputs
\* C5 says timeDepth is to accept)
C10_OnGridTimeWhenRangeValid ==
    dmax > MaxGivenDepth => ZeroSampleOnGridTime

====
